---- MODULE Spec2Model ----
(***************************************************************************)
(* The /ask streaming pipeline of app.py: the line-buffering capture       *)
(* (SseLogStreamWrapper), the worker thread (rag_worker) that redirects    *)
(* q_a.console.file, and the SSE generator loop that drains the queue.     *)
(*                                                                         *)
(* Text is a sequence of one-character strings.  The specifications:       *)
(*   Spec        - two jobs: workers, the shared console binding, queues   *)
(*                 and generator loops, in every interleaving;             *)
(*   SpecWorkers - the workers of the two jobs alone, with more output;    *)
(*   SpecCapture - one SseLogStreamWrapper driven by arbitrary chunks;     *)
(*   SpecAsk     - login, logout and the synchronous checks of /ask;       *)
(*   SpecFormat  - the workers when ansi_conv.convert raises;              *)
(*   SpecFair    - workers and loops under fair scheduling;                *)
(*   SpecAsr     - one call of recognize_audio_file of voice_asr.py.       *)
(* A worker takes one step per statement that reads or writes what another *)
(* thread can see.  A generator loop takes one step per iteration: it is   *)
(* the only consumer of its queue and the signal is never cleared, so     *)
(* testing the while condition and calling get() in one step loses no     *)
(* behaviour.                                                              *)
(***************************************************************************)
EXTENDS Naturals, Sequences, FiniteSets

VARIABLES
    hasConsole,    \* hasattr(q_a, 'console')
    consoleFile,   \* q_a.console.file, the shared binding
    pc,            \* pc[j]: position of rag_worker of job j
    original,      \* original[j]: the local original_q_a_console_file
    buffer,        \* buffer[j]: worker_sse_wrapper.buffer of job j
    queue,         \* queue[j]: message_queue of job j
    signal,        \* signal[j]: finished_signal.is_set()
    outcome,       \* outcome[j]: how the engine call of job j ended
    budget,        \* chunks the engines may still write (bounds the run)
    dpc,           \* dpc[j]: position of the generator loop of job j
    sent,          \* sent[j]: frames written to the client
    exitBy,        \* exitBy[j]: which statement ended the loop
    pushed,        \* history: every put on queue[j]: [ev, by (thread), n]
    sinks,         \* history: sinks[j] = where the output of engine j went
    atPatch,       \* history: console.file just before worker j redirected it
    atClose,       \* history: job -> what its loop saw when it ended
    atExit,        \* history: console.file when worker j returned
    capBuffer,     \* SpecCapture: the wrapper's buffer
    capEvents,     \* SpecCapture: events the wrapper has put
    capText,       \* SpecCapture: all text written so far
    capLines,      \* SpecCapture: line terminators consumed from the buffer
    capCalls,      \* SpecCapture: number of write() calls made
    capFlushes,    \* SpecCapture: number of flush() calls made
    capBefore,     \* SpecCapture: history, the wrapper before its latest flush()
    session,       \* SpecAsk: the Flask session of the caller
    replies,       \* SpecAsk: history, the requests to /ask and their responses
    loggedIn,      \* SpecAsk: history, the last login or logout was a login
                   \* that succeeded
    asr            \* SpecAsr: one call of VoiceASR.recognize_audio_file

jobVars == <<hasConsole, consoleFile, pc, original, buffer, queue, signal,
             outcome, budget, dpc, sent, exitBy, pushed, sinks, atPatch,
             atClose, atExit>>
capVars == <<capBuffer, capEvents, capText, capLines, capCalls, capFlushes,
             capBefore>>
askVars == <<session, replies, loggedIn>>
otherVars == <<capVars, askVars, asr>>
vars == <<jobVars, capVars, askVars, asr>>

-----------------------------------------------------------------------------
(* Bounds *)

\* Chunks the engines write to the console, all jobs together, in Spec.
MaxWrites == 1
\* The same in SpecWorkers, where no dispatcher runs.
MaxWorkerWrites == 3
\* write() calls on the wrapper in SpecCapture.
MaxCalls == 2
\* flush() calls on the wrapper in SpecCapture.
MaxFlushes == 2
\* Characters in one chunk in SpecCapture.
MaxChunkLen == 2

\* Two /ask requests, numbered in the order they arrive: the least number of
\* jobs whose workers can overlap.
Jobs == {1, 2}

-----------------------------------------------------------------------------
(* Text *)

NL == "\n"
SP == " "
\* The visible character job j's engine prints.
Letter(j) == IF j = 1 THEN "a" ELSE "b"

IsSpace(c) == c \in {NL, SP}

RECURSIVE LStrip(_)
LStrip(s) == IF s = <<>> THEN <<>>
             ELSE IF IsSpace(Head(s)) THEN LStrip(Tail(s)) ELSE s

RECURSIVE RStrip(_)
RStrip(s) == IF s = <<>> THEN <<>>
             ELSE IF IsSpace(s[Len(s)]) THEN RStrip(SubSeq(s, 1, Len(s) - 1)) ELSE s

\* str.strip()
Strip(s) == RStrip(LStrip(s))

\* str.index('\n'), 1-based; 0 stands for ValueError
RECURSIVE IndexFrom(_, _)
IndexFrom(s, i) == IF i > Len(s) THEN 0
                   ELSE IF s[i] = NL THEN i ELSE IndexFrom(s, i + 1)
NewlineIndex(s) == IndexFrom(s, 1)

\* Ansi2HTMLConverter.convert(line, full=False): markup characters are escaped
RECURSIVE AnsiConvert(_)
AnsiConvert(s) == IF s = <<>> THEN <<>>
                  ELSE (IF Head(s) = "<" THEN <<"&lt;">> ELSE <<Head(s)>>)
                       \o AnsiConvert(Tail(s))

LogEvent(line) ==
    [type |-> "log_html",
     content |-> <<"<div class='log-item'>">> \o AnsiConvert(line) \o <<"</div>">>]

-----------------------------------------------------------------------------
(* SseLogStreamWrapper *)

\* Mutant of EmitsLine: blank lines are not skipped.
EmitsEveryLine(line) == TRUE

\* Whether write() puts an event for the extracted line.
EmitsLine(line) == Strip(line) # <<>>

\* The while loop of write(): [buffer, events, lines] after no newline is left.
RECURSIVE WriteLoop(_, _, _)
WriteLoop(buf, events, lines) ==
    LET i == NewlineIndex(buf) IN
    IF i = 0 THEN [buffer |-> buf, events |-> events, lines |-> lines]
    ELSE LET line == SubSeq(buf, 1, i)
             rest == SubSeq(buf, i + 1, Len(buf))
         IN WriteLoop(rest,
                      IF EmitsLine(line)
                      THEN Append(events, LogEvent(Strip(line))) ELSE events,
                      lines + 1)

\* Mutant of WrapperWrite: what an earlier call left in the buffer is
\* dropped (self.buffer = s).
WrapperWriteForgets(buf, s) == WriteLoop(s, <<>>, 0)

\* write(s) on a wrapper whose buffer is buf
WrapperWrite(buf, s) == WriteLoop(buf \o s, <<>>, 0)

\* Mutant of WrapperFlush: the test is `if self.buffer:`, without strip().
WrapperFlushAnyRemainder(buf) ==
    IF buf # <<>>
    THEN [buffer |-> <<>>, events |-> <<LogEvent(Strip(buf))>>]
    ELSE [buffer |-> buf, events |-> <<>>]

\* Mutant of WrapperFlush: the buffer is not cleared after the event is put.
WrapperFlushKeepsBuffer(buf) ==
    IF Strip(buf) # <<>>
    THEN [buffer |-> buf, events |-> <<LogEvent(Strip(buf))>>]
    ELSE [buffer |-> buf, events |-> <<>>]

\* flush() on a wrapper whose buffer is buf
WrapperFlush(buf) ==
    IF Strip(buf) # <<>>
    THEN [buffer |-> <<>>, events |-> <<LogEvent(Strip(buf))>>]
    ELSE [buffer |-> buf, events |-> <<>>]

-----------------------------------------------------------------------------
(* Values *)

StdoutSink == [kind |-> "stdout", job |-> 0]
\* Python's None, as the value of original_q_a_console_file
NoneSink == [kind |-> "None", job |-> 0]
\* q_a.console has no attribute 'file'
AbsentAttr == [kind |-> "absent", job |-> 0]
\* worker_sse_wrapper of job j
Wrapper(j) == [kind |-> "wrapper", job |-> j]

\* What answer_question returns for the question of job j.
AnswerOf(j) == <<"X is ...", Letter(j)>>
\* str(e) of the failure the engine raises in job j.
FailureOf(j) == <<"db unreachable", Letter(j)>>

AnswerEvent(text) == [type |-> "answer", content |-> text]
\* Mutant of ErrorEvent: the message leaves out str(e).
ErrorEventGeneric(e) == [type |-> "error", content |-> <<"An error occurred">>]
ErrorEvent(e) == [type |-> "error", content |-> <<"An error occurred: ">> \o e]
NoConsoleEvent ==
    [type |-> "error", content |-> <<"Internal error: q_a.console not found.">>]
FinishedEvent == [type |-> "finished"]

\* What one engine call may write in one call on the console's file.
Chunks(j) == {<<Letter(j)>>, <<Letter(j), NL>>}

\* f"data: {json.dumps(msg)}\n\n"
SseFrame(m) == <<"data: ", m, "\n\n">>

\* queue.put(ev)
QueuePut(q, ev) == Append(q, ev)
\* the puts of one write() or flush(), in order
RECURSIVE PutAll(_, _)
PutAll(q, events) ==
    IF events = <<>> THEN q ELSE PutAll(QueuePut(q, Head(events)), Tail(events))
\* History entries for `events`, put by thread `by`, whose earlier puts number
\* `before`: n is the position of the put among all puts of that thread.
RECURSIVE Tagged(_, _, _)
Tagged(events, by, before) ==
    IF events = <<>> THEN <<>>
    ELSE <<[ev |-> Head(events), by |-> by, n |-> before + 1]>>
         \o Tagged(Tail(events), by, before + 1)

-----------------------------------------------------------------------------
(* Initial states *)

CapInit ==
    /\ capBuffer = <<>>
    /\ capEvents = <<>>
    /\ capText = <<>>
    /\ capLines = 0
    /\ capCalls = 0
    /\ capFlushes = 0
    /\ capBefore = [buffer |-> <<>>, events |-> <<>>]

\* recognize_audio_file has not been called: no websocket, nothing sent,
\* result_text = "".  failed and got_last are history: the operations that
\* raised, and whether a result message with is_last true was received.
AsrInit ==
    asr = [pc |-> "load", nframes |-> 0, cur_frames |-> 0, iterations |-> 0,
           sent |-> <<>>, result_text |-> "", returned |-> "pending",
           ws |-> "none", recvs |-> 0, failed |-> {}, sent_at_failure |-> 0,
           got_last |-> FALSE]

\* A browser session before any login: neither key is in the session.
AskInit ==
    /\ session = [neo4j_config |-> FALSE, neo4j_connected |-> "unset"]
    /\ replies = <<>>
    /\ loggedIn = FALSE

\* What a generator loop leaves behind when it ends: the signal it read, the
\* events still in its queue, the frames it had written, and the type of the
\* event it had just taken from the queue ("none": it took none).
AtClose(sig, q, frames, last) ==
    [signal |-> sig, pending |-> Len(q), frames |-> Len(frames), last |-> last]

JobsIdle ==
    /\ pc = [j \in Jobs |-> "idle"]
    /\ original = [j \in Jobs |-> NoneSink]
    /\ buffer = [j \in Jobs |-> <<>>]
    /\ queue = [j \in Jobs |-> <<>>]
    /\ signal = [j \in Jobs |-> FALSE]
    /\ outcome = [j \in Jobs |-> "none"]
    /\ dpc = [j \in Jobs |-> "idle"]
    /\ sent = [j \in Jobs |-> <<>>]
    /\ exitBy = [j \in Jobs |-> "none"]
    /\ pushed = [j \in Jobs |-> <<>>]
    /\ sinks = [j \in Jobs |-> {}]
    /\ atPatch = [j \in Jobs |-> AbsentAttr]
    /\ atExit = [j \in Jobs |-> AbsentAttr]
    /\ atClose = [j \in Jobs |-> AtClose(FALSE, <<>>, <<>>, "none")]

\* q_a may lack a console, and its console may lack a file (or hold None,
\* which the worker treats the same way: nothing to restore).
Environment ==
    /\ hasConsole \in BOOLEAN
    /\ consoleFile \in (IF hasConsole THEN {StdoutSink, AbsentAttr}
                        ELSE {AbsentAttr})

Init ==
    /\ Environment
    /\ budget = MaxWrites
    /\ JobsIdle
    /\ CapInit
    /\ AskInit
    /\ AsrInit

InitWorkers ==
    /\ Environment
    /\ budget = MaxWorkerWrites
    /\ JobsIdle
    /\ CapInit
    /\ AskInit
    /\ AsrInit

-----------------------------------------------------------------------------
(* generate_response_stream: set-up *)

\* message_queue, finished_signal, worker_thread.start()
StartJob(j) ==
    /\ pc[j] = "idle"
    /\ \A i \in Jobs : i < j => pc[i] # "idle"
    /\ pc' = [pc EXCEPT ![j] = "save"]
    /\ dpc' = [dpc EXCEPT ![j] = "loop"]
    /\ UNCHANGED atClose
    /\ UNCHANGED <<hasConsole, consoleFile, original, buffer, queue, signal,
                   outcome, budget, sent, exitBy, pushed, sinks, atPatch,
                   atExit>>

Start(j) ==
    /\ StartJob(j)
    /\ UNCHANGED otherVars

-----------------------------------------------------------------------------
(* rag_worker *)

\* The puts of thread `by` so far, on whichever queue.
PutsBy(by) ==
    UNION {{pushed[k][i] : i \in {x \in 1..Len(pushed[k]) : pushed[k][x].by = by}}
           : k \in Jobs}

\* Thread `by` puts `events` on the queue of job j.
Put(j, events, by) ==
    /\ queue' = [queue EXCEPT ![j] = PutAll(@, events)]
    /\ pushed' = [pushed EXCEPT ![j] =
                    @ \o Tagged(events, by, Cardinality(PutsBy(by)))]

\* What line 206 leaves in original_q_a_console_file.
SavedOriginal(file, old) ==
    IF hasConsole /\ file # AbsentAttr THEN file ELSE old

\* if hasattr(q_a, 'console') and hasattr(q_a.console, 'file'): original = ...
SaveOriginal(j) ==
    /\ pc[j] = "save"
    /\ original' = [original EXCEPT ![j] = SavedOriginal(consoleFile, @)]
    /\ pc' = [pc EXCEPT ![j] = "patch"]
    /\ UNCHANGED atClose
    /\ UNCHANGED <<hasConsole, consoleFile, buffer, queue, signal, outcome,
                   budget, dpc, sent, exitBy, pushed, sinks, atPatch,
                   atExit>>
    /\ UNCHANGED otherVars

\* q_a.console.file = worker_sse_wrapper
Patch(j) ==
    /\ pc[j] = "patch"
    /\ hasConsole
    /\ atPatch' = [atPatch EXCEPT ![j] = consoleFile]
    /\ consoleFile' = Wrapper(j)
    /\ pc' = [pc EXCEPT ![j] = "engine"]
    /\ UNCHANGED atClose
    /\ UNCHANGED <<hasConsole, original, buffer, queue, signal, outcome,
                   budget, dpc, sent, exitBy, pushed, sinks, atExit>>
    /\ UNCHANGED otherVars

\* Mutant of NoConsoleError: the else branch puts its error and falls through
\* to the engine instead of returning.
NoConsoleFallsThrough(j) ==
    /\ pc[j] = "patch"
    /\ ~hasConsole
    /\ Put(j, <<NoConsoleEvent>>, j)
    /\ pc' = [pc EXCEPT ![j] = "engine"]
    /\ UNCHANGED atClose
    /\ UNCHANGED <<hasConsole, consoleFile, original, buffer, signal, outcome,
                   budget, dpc, sent, exitBy, sinks, atPatch, atExit>>
    /\ UNCHANGED otherVars

\* else: q.put({'type': 'error', ...})
NoConsoleError(j) ==
    /\ pc[j] = "patch"
    /\ ~hasConsole
    /\ Put(j, <<NoConsoleEvent>>, j)
    /\ outcome' = [outcome EXCEPT ![j] = "noconsole"]
    /\ pc' = [pc EXCEPT ![j] = "early_set"]
    /\ UNCHANGED atClose
    /\ UNCHANGED <<hasConsole, consoleFile, original, buffer, signal,
                   budget, dpc, sent, exitBy, sinks, atPatch, atExit>>
    /\ UNCHANGED otherVars

\* Mutant of EarlySet: the early return leaves the function at once, as it
\* would were the last statements not in a finally block.
EarlySetReturns(j) ==
    /\ pc[j] = "early_set"
    /\ signal' = [signal EXCEPT ![j] = TRUE]
    /\ pc' = [pc EXCEPT ![j] = "done"]
    /\ UNCHANGED atClose
    /\ UNCHANGED <<hasConsole, consoleFile, original, buffer, queue, outcome,
                   budget, dpc, sent, exitBy, pushed, sinks, atPatch,
                   atExit>>
    /\ UNCHANGED otherVars

\* finish_event.set(); return  (line 213: control goes to the finally block)
EarlySet(j) ==
    /\ pc[j] = "early_set"
    /\ signal' = [signal EXCEPT ![j] = TRUE]
    /\ pc' = [pc EXCEPT ![j] = "restore"]
    /\ UNCHANGED atClose
    /\ UNCHANGED <<hasConsole, consoleFile, original, buffer, queue, outcome,
                   budget, dpc, sent, exitBy, pushed, sinks, atPatch,
                   atExit>>
    /\ UNCHANGED otherVars

\* The engine (Neo4jRAGSystem(...), answer_question) prints a chunk: the
\* console writes it to whatever q_a.console.file is bound to right now.
EngineWrite(j) ==
    /\ pc[j] = "engine"
    /\ budget > 0
    /\ \E s \in Chunks(j) :
         /\ budget' = budget - 1
         /\ sinks' = [sinks EXCEPT ![j] = @ \cup {consoleFile}]
         /\ IF consoleFile.kind = "wrapper"
            THEN LET k == consoleFile.job
                     r == WrapperWrite(buffer[k], s)
                 IN /\ buffer' = [buffer EXCEPT ![k] = r.buffer]
                    /\ Put(k, r.events, j)
            ELSE UNCHANGED <<buffer, queue, pushed>>
    /\ UNCHANGED atClose
    /\ UNCHANGED <<hasConsole, consoleFile, pc, original, signal, outcome,
                   dpc, sent, exitBy, atPatch, atExit>>
    /\ UNCHANGED otherVars

\* final_answer = rag_system.answer_question(question) returns
EngineReturn(j) ==
    /\ pc[j] = "engine"
    /\ outcome' = [outcome EXCEPT ![j] = "returned"]
    /\ pc' = [pc EXCEPT ![j] = "flush"]
    /\ UNCHANGED atClose
    /\ UNCHANGED <<hasConsole, consoleFile, original, buffer, queue, signal,
                   budget, dpc, sent, exitBy, pushed, sinks, atPatch,
                   atExit>>
    /\ UNCHANGED otherVars

\* Mutant of EngineRaise: the exception leaves rag_worker at once, as it
\* would with no except and no finally block.
EngineRaiseEscapes(j) ==
    /\ pc[j] = "engine"
    /\ outcome' = [outcome EXCEPT ![j] = "raised"]
    /\ pc' = [pc EXCEPT ![j] = "done"]
    /\ UNCHANGED atClose
    /\ UNCHANGED <<hasConsole, consoleFile, original, buffer, queue, signal,
                   budget, dpc, sent, exitBy, pushed, sinks, atPatch,
                   atExit>>
    /\ UNCHANGED otherVars

\* the constructor or answer_question raises an Exception
EngineRaise(j) ==
    /\ pc[j] = "engine"
    /\ outcome' = [outcome EXCEPT ![j] = "raised"]
    /\ pc' = [pc EXCEPT ![j] = "exc_flush"]
    /\ UNCHANGED atClose
    /\ UNCHANGED <<hasConsole, consoleFile, original, buffer, queue, signal,
                   budget, dpc, sent, exitBy, pushed, sinks, atPatch,
                   atExit>>
    /\ UNCHANGED otherVars

\* worker_sse_wrapper.flush(), at line 229 and at line 236
FlushOwn(j, next) ==
    LET r == WrapperFlush(buffer[j]) IN
    /\ buffer' = [buffer EXCEPT ![j] = r.buffer]
    /\ Put(j, r.events, j)
    /\ pc' = [pc EXCEPT ![j] = next]
    /\ UNCHANGED atClose
    /\ UNCHANGED <<hasConsole, consoleFile, original, signal, outcome,
                   budget, dpc, sent, exitBy, sinks, atPatch, atExit>>
    /\ UNCHANGED otherVars

\* Mutant of Flush: the answer is put first and the wrapper flushed after it.
FlushAfterAnswer(j) ==
    LET r == WrapperFlush(buffer[j]) IN
    /\ pc[j] = "flush"
    /\ buffer' = [buffer EXCEPT ![j] = r.buffer]
    /\ Put(j, <<AnswerEvent(AnswerOf(j))>> \o r.events, j)
    /\ pc' = [pc EXCEPT ![j] = "restore"]
    /\ UNCHANGED atClose
    /\ UNCHANGED <<hasConsole, consoleFile, original, signal, outcome,
                   budget, dpc, sent, exitBy, sinks, atPatch, atExit>>
    /\ UNCHANGED otherVars

Flush(j) == pc[j] = "flush" /\ FlushOwn(j, "put_answer")

ExcFlush(j) == pc[j] = "exc_flush" /\ FlushOwn(j, "put_error")

\* q.put({'type': 'answer', 'content': final_answer})
PutAnswer(j) ==
    /\ pc[j] = "put_answer"
    /\ Put(j, <<AnswerEvent(AnswerOf(j))>>, j)
    /\ pc' = [pc EXCEPT ![j] = "restore"]
    /\ UNCHANGED atClose
    /\ UNCHANGED <<hasConsole, consoleFile, original, buffer, signal, outcome,
                   budget, dpc, sent, exitBy, sinks, atPatch, atExit>>
    /\ UNCHANGED otherVars

\* q.put({'type': 'error', 'content': f"An error occurred: {str(e)}"})
PutError(j) ==
    /\ pc[j] = "put_error"
    /\ Put(j, <<ErrorEvent(FailureOf(j))>>, j)
    /\ pc' = [pc EXCEPT ![j] = "restore"]
    /\ UNCHANGED atClose
    /\ UNCHANGED <<hasConsole, consoleFile, original, buffer, signal, outcome,
                   budget, dpc, sent, exitBy, sinks, atPatch, atExit>>
    /\ UNCHANGED otherVars

\* What the finally block leaves in q_a.console.file.
Restored(file, orig) ==
    IF orig # NoneSink /\ hasConsole THEN orig ELSE file

\* finally: if original_q_a_console_file is not None and hasattr(q_a, 'console')
Restore(j) ==
    /\ pc[j] = "restore"
    /\ consoleFile' = Restored(consoleFile, original[j])
    /\ pc' = [pc EXCEPT ![j] = "set"]
    /\ UNCHANGED atClose
    /\ UNCHANGED <<hasConsole, original, buffer, queue, signal, outcome,
                   budget, dpc, sent, exitBy, pushed, sinks, atPatch,
                   atExit>>
    /\ UNCHANGED otherVars

\* finish_event.set()
SetSignal(j) ==
    /\ pc[j] = "set"
    /\ signal' = [signal EXCEPT ![j] = TRUE]
    /\ pc' = [pc EXCEPT ![j] = "put_finished"]
    /\ UNCHANGED atClose
    /\ UNCHANGED <<hasConsole, consoleFile, original, buffer, queue, outcome,
                   budget, dpc, sent, exitBy, pushed, sinks, atPatch,
                   atExit>>
    /\ UNCHANGED otherVars

\* q.put({'type': 'finished'}), the worker's last statement
PutFinished(j) ==
    /\ pc[j] = "put_finished"
    /\ Put(j, <<FinishedEvent>>, j)
    /\ pc' = [pc EXCEPT ![j] = "done"]
    /\ atExit' = [atExit EXCEPT ![j] = consoleFile]
    /\ UNCHANGED atClose
    /\ UNCHANGED <<hasConsole, consoleFile, original, buffer, signal, outcome,
                   budget, dpc, sent, exitBy, sinks, atPatch>>
    /\ UNCHANGED otherVars

-----------------------------------------------------------------------------
(* generate_response_stream: the SSE generator loop *)

\* while not finished_signal.is_set() or not message_queue.empty()
LoopCondition(sig, q) == ~sig \/ q # <<>>

\* Mutant of GetItem: the newest item is returned instead of the oldest.
GetNewest(q) == q[Len(q)]

\* Queue.get: the item returned, and the queue left behind
GetItem(q) == Head(q)
GetRest(q) == Tail(q)

\* Mutant of BreaksAfter: the loop breaks after whatever it forwards.
BreaksAfterAny(m) == TRUE

\* Mutant of BreaksAfter: the loop never breaks after a message.
BreaksAfterNone(m) == FALSE

\* if msg.get('type') == 'finished': break
BreaksAfter(m) == m.type = "finished"

\* The loop condition is false: the loop ends without a break.
LoopExit(j) ==
    /\ dpc[j] = "loop"
    /\ ~LoopCondition(signal[j], queue[j])
    /\ dpc' = [dpc EXCEPT ![j] = "closed"]
    /\ exitBy' = [exitBy EXCEPT ![j] = "condition"]
    /\ atClose' = [atClose EXCEPT ![j] = AtClose(signal[j], queue[j],
                                                 sent[j], "none")]
    /\ UNCHANGED <<hasConsole, consoleFile, pc, original, buffer, queue,
                   signal, outcome, budget, sent, pushed, sinks, atPatch,
                   atExit>>
    /\ UNCHANGED otherVars

\* One iteration: msg = message_queue.get(timeout=0.1); yield the frame,
\* which the client receives; break after 'finished'.
Forward(j) ==
    /\ dpc[j] = "loop"
    /\ LoopCondition(signal[j], queue[j])
    /\ queue[j] # <<>>
    /\ LET m == GetItem(queue[j]) IN
         /\ queue' = [queue EXCEPT ![j] = GetRest(@)]
         /\ sent' = [sent EXCEPT ![j] = Append(@, SseFrame(m))]
         /\ IF BreaksAfter(m)
            THEN /\ dpc' = [dpc EXCEPT ![j] = "closed"]
                 /\ exitBy' = [exitBy EXCEPT ![j] = "finished"]
                 /\ atClose' = [atClose EXCEPT ![j] =
                                   AtClose(signal[j], queue'[j], sent'[j],
                                           m.type)]
            ELSE UNCHANGED <<dpc, exitBy, atClose>>
    /\ UNCHANGED <<hasConsole, consoleFile, pc, original, buffer, signal,
                   outcome, budget, pushed, sinks, atPatch, atExit>>
    /\ UNCHANGED otherVars

\* One iteration whose yield fails (client gone): except Exception ... break,
\* or the generator is closed at the yield.  The popped event is lost.
ForwardFails(j) ==
    /\ dpc[j] = "loop"
    /\ LoopCondition(signal[j], queue[j])
    /\ queue[j] # <<>>
    /\ queue' = [queue EXCEPT ![j] = GetRest(@)]
    /\ dpc' = [dpc EXCEPT ![j] = "closed"]
    /\ exitBy' = [exitBy EXCEPT ![j] = "transport"]
    /\ atClose' = [atClose EXCEPT ![j] =
                      AtClose(signal[j], queue'[j], sent[j],
                              GetItem(queue[j]).type)]
    /\ UNCHANGED <<hasConsole, consoleFile, pc, original, buffer, signal,
                   outcome, budget, sent, pushed, sinks, atPatch, atExit>>
    /\ UNCHANGED otherVars

\* One iteration whose get times out: except queue.Empty: continue
PollTimeout(j) ==
    /\ dpc[j] = "loop"
    /\ LoopCondition(signal[j], queue[j])
    /\ queue[j] = <<>>
    /\ UNCHANGED jobVars
    /\ UNCHANGED otherVars

-----------------------------------------------------------------------------
(* The jobs *)

WorkerNext ==
    \E j \in Jobs :
        \/ Start(j)
        \/ SaveOriginal(j)
        \/ Patch(j)
        \/ NoConsoleError(j)
        \/ EarlySet(j)
        \/ EngineWrite(j)
        \/ EngineReturn(j)
        \/ EngineRaise(j)
        \/ Flush(j)
        \/ PutAnswer(j)
        \/ ExcFlush(j)
        \/ PutError(j)
        \/ Restore(j)
        \/ SetSignal(j)
        \/ PutFinished(j)

LoopNext ==
    \E j \in Jobs :
        \/ LoopExit(j)
        \/ Forward(j)
        \/ ForwardFails(j)
        \/ PollTimeout(j)

Next == WorkerNext \/ LoopNext

\* Workers and generator loops, in every interleaving.
Spec == Init /\ [][Next]_vars

\* The workers alone (nothing is taken off the queues), with more output.
SpecWorkers == InitWorkers /\ [][WorkerNext]_vars

-----------------------------------------------------------------------------
(* One SseLogStreamWrapper, driven directly *)

CapChars == {"a", "<", SP, NL}

\* Every text of at most n characters.
RECURSIVE TextsUpTo(_)
TextsUpTo(n) ==
    IF n = 0 THEN {<<>>}
    ELSE LET shorter == TextsUpTo(n - 1) IN
         shorter \cup {Append(s, c) : s \in shorter, c \in CapChars}

CapChunks == TextsUpTo(MaxChunkLen)

CapStart ==
    /\ hasConsole = TRUE
    /\ consoleFile = StdoutSink
    /\ budget = 0
    /\ JobsIdle
    /\ CapInit
    /\ AskInit
    /\ AsrInit

\* wrapper.write(s)
CapWrite ==
    /\ capFlushes = 0
    /\ capCalls < MaxCalls
    /\ \E s \in CapChunks :
         LET r == WrapperWrite(capBuffer, s) IN
         /\ capBuffer' = r.buffer
         /\ capEvents' = PutAll(capEvents, r.events)
         /\ capLines' = capLines + r.lines
         /\ capText' = capText \o s
    /\ capCalls' = capCalls + 1
    /\ UNCHANGED <<capFlushes, capBefore>>
    /\ UNCHANGED jobVars
    /\ UNCHANGED <<askVars, asr>>

\* wrapper.flush()
CapFlush ==
    /\ capFlushes < MaxFlushes
    /\ LET r == WrapperFlush(capBuffer) IN
         /\ capBuffer' = r.buffer
         /\ capEvents' = PutAll(capEvents, r.events)
    /\ capFlushes' = capFlushes + 1
    /\ capBefore' = [buffer |-> capBuffer, events |-> capEvents]
    /\ UNCHANGED <<capText, capLines, capCalls>>
    /\ UNCHANGED jobVars
    /\ UNCHANGED <<askVars, asr>>

CapNext == CapWrite \/ CapFlush

SpecCapture == CapStart /\ [][CapNext]_vars

-----------------------------------------------------------------------------
(* Reading the histories *)

\* The events thread j itself put on the queue of job j, in order.
OwnPuts(j) ==
    LET Mine(e) == e.by = j
        mine == SelectSeq(pushed[j], Mine)
    IN [i \in 1..Len(mine) |-> mine[i].ev]

\* Number of log_html events at the front of a sequence of events.
RECURSIVE LeadingLogs(_)
LeadingLogs(events) ==
    IF events = <<>> \/ Head(events).type # "log_html" THEN 0
    ELSE 1 + LeadingLogs(Tail(events))

\* What follows the leading log_html events.
AfterLogs(events) == SubSeq(events, LeadingLogs(events) + 1, Len(events))

IsPrefix(s, u) == Len(s) <= Len(u) /\ \A i \in 1..Len(s) : s[i] = u[i]

\* text occurs in content, contiguously
ContainsText(content, text) ==
    \E k \in 0..Len(content) :
        /\ k + Len(text) <= Len(content)
        /\ \A i \in 1..Len(text) : content[k + i] = text[i]

Finished(j) == {e \in PutsBy(j) : e.ev.type = "finished"}

-----------------------------------------------------------------------------
(* Claims about rag_worker, checked under SpecWorkers *)

\* C1: on every path of rag_worker (engine returns, engine or constructor
\* raises, q_a.console missing) the worker has put exactly one `finished`
\* event once it has returned and none before, that event is on its own
\* queue, and it is the last put the worker's thread makes on any queue.
C1_FinishedOnceAndLast ==
    \A j \in Jobs :
        /\ Cardinality(Finished(j)) = (IF pc[j] = "done" THEN 1 ELSE 0)
        /\ \A f \in Finished(j) :
              /\ \E i \in 1..Len(pushed[j]) : pushed[j][i] = f
              /\ \A e \in PutsBy(j) : e.n <= f.n

\* A worker whose engine raised after printing has returned, having put log
\* events, its error and its finished event.
C1_Witness ==
    \E j \in Jobs :
        /\ pc[j] = "done"
        /\ outcome[j] = "raised"
        /\ Cardinality(PutsBy(j)) >= 3
        /\ \E k \in Jobs : pc[k] = "done" /\ outcome[k] = "returned"

\* C4: when the engine call of job j returned, the events the worker of j
\* puts on its own queue are zero or more log_html events, then one answer
\* event carrying the returned text, then finished: at every moment a prefix
\* of that sequence, and all of it once the worker has returned.  No error
\* event and no log event after the answer.
C4_SuccessSequence ==
    \A j \in Jobs :
        outcome[j] = "returned" =>
            LET tail == AfterLogs(OwnPuts(j))
                full == <<AnswerEvent(AnswerOf(j)), FinishedEvent>>
            IN /\ IsPrefix(tail, full)
               /\ pc[j] = "done" => tail = full

\* A successful job has returned after a terminated line and a flushed
\* remainder: two log events, the answer, finished.
C4_Witness ==
    \E j \in Jobs :
        /\ pc[j] = "done"
        /\ outcome[j] = "returned"
        /\ LeadingLogs(OwnPuts(j)) = 2
        /\ Len(OwnPuts(j)) = 4

\* C5: when the engine call of job j raised, the events the worker of j puts
\* on its own queue are zero or more log_html events (the flushed remainder
\* among them), then one error event containing the failure text, then
\* finished; no answer event; and the worker runs to its end.
C5_FailureSequence ==
    \A j \in Jobs :
        outcome[j] = "raised" =>
            LET tail == AfterLogs(OwnPuts(j))
            IN /\ Len(tail) <= 2
               /\ Len(tail) >= 1 =>
                     /\ tail[1].type = "error"
                     /\ ContainsText(tail[1].content, FailureOf(j))
               /\ Len(tail) = 2 => tail[2] = FinishedEvent
               /\ pc[j] = "done" => Len(tail) = 2
               /\ pc[j] \in {"exc_flush", "put_error", "restore", "set",
                             "put_finished", "done"}

\* A failed job has returned; the remainder its engine left unterminated was
\* flushed as a log event before the error.
C5_Witness ==
    \E j \in Jobs :
        /\ pc[j] = "done"
        /\ outcome[j] = "raised"
        /\ LeadingLogs(OwnPuts(j)) >= 1
        /\ OwnPuts(j)[LeadingLogs(OwnPuts(j))] = LogEvent(<<Letter(j)>>)
        /\ Len(OwnPuts(j)) = LeadingLogs(OwnPuts(j)) + 2

\* C6, as claimed: for every worker that redirected q_a.console.file, the
\* binding when the worker returns equals the binding just before that
\* worker redirected it, whatever it was.
C6_RestoredToPrior ==
    \A j \in Jobs :
        (pc[j] = "done" /\ outcome[j] # "noconsole") => atExit[j] = atPatch[j]

\* The letters of the jobs other than j.
ForeignLetters(j) == {Letter(k) : k \in Jobs \ {j}}

\* C8, as claimed: every log_html event on the queue of job j comes from the
\* output of j's own engine call, and no output of j's engine goes to a sink
\* other than j's wrapper.
C8_OutputStaysWithJob ==
    \A j \in Jobs :
        /\ \A i \in 1..Len(pushed[j]) :
              pushed[j][i].ev.type = "log_html" =>
                  \A c \in 1..Len(pushed[j][i].ev.content) :
                      pushed[j][i].ev.content[c] \notin ForeignLetters(j)
        /\ sinks[j] \subseteq {Wrapper(j)}

-----------------------------------------------------------------------------
(* Claims about the generator loop, checked under Spec *)

Frames(j) == [i \in 1..Len(pushed[j]) |-> SseFrame(pushed[j][i].ev)]

\* C2, as claimed: when no write to the client of job j failed, the last
\* frame written when the loop has ended is the `finished` frame.
C2_FinishedObserved ==
    \A j \in Jobs :
        (dpc[j] = "closed" /\ exitBy[j] # "transport") =>
            /\ sent[j] # <<>>
            /\ sent[j][Len(sent[j])] = SseFrame(FinishedEvent)

\* C3, as claimed: finished_signal is set only when the `finished` event of
\* that worker has been put.
C3_SignalAfterFinished ==
    \A j \in Jobs : signal[j] => Finished(j) # {}

\* C7: the frames written to the client of job j are, in order, the frames
\* of the first events put on the queue of job j: one per event, none
\* skipped, repeated, merged or reordered.
C7_SentIsPrefix ==
    \A j \in Jobs : IsPrefix(sent[j], Frames(j))

\* A client has received three frames, the last one `finished`, the first
\* one a log event that the engine of the other job put on this queue.
C7_Witness ==
    \E j \in Jobs :
        /\ Len(sent[j]) = 3
        /\ sent[j][3] = SseFrame(FinishedEvent)
        /\ pushed[j][1].by # j

\* C9, as claimed: the loop ends only by the break after a `finished` event
\* or by a failed write to the client.
C9_LoopEndsOnlyByFinishedOrTransport ==
    \A j \in Jobs : dpc[j] = "closed" => exitBy[j] \in {"finished", "transport"}

-----------------------------------------------------------------------------
(* Claims about SseLogStreamWrapper, checked under SpecCapture *)

\* Line terminators in a text.
RECURSIVE Terminators(_)
Terminators(s) ==
    IF s = <<>> THEN 0
    ELSE (IF Head(s) = NL THEN 1 ELSE 0) + Terminators(Tail(s))

\* Terminated lines of a text that hold a character other than white space:
\* one scan, `seen` telling whether the current line holds one so far.
RECURSIVE NonBlankLines(_, _)
NonBlankLines(s, seen) ==
    IF s = <<>> THEN 0
    ELSE IF Head(s) = NL
         THEN (IF seen THEN 1 ELSE 0) + NonBlankLines(Tail(s), FALSE)
         ELSE NonBlankLines(Tail(s), seen \/ ~IsSpace(Head(s)))

\* C10, as claimed: before flush(), the number of log_html events put equals
\* the number of line terminators consumed from the buffer.
C10_EventsEqualTerminators ==
    capFlushes = 0 => Len(capEvents) = capLines

\* C10, amended: before flush(), every line terminator written has been
\* consumed, and the number of log_html events put equals the number of
\* consumed lines that are not blank; a blank line consumes its terminator
\* and puts nothing.
C10_EventsEqualNonBlankLines ==
    capFlushes = 0 =>
        /\ capLines = Terminators(capText)
        /\ Len(capEvents) = NonBlankLines(capText, FALSE)
        /\ Len(capEvents) <= capLines

\* Two writes have left a line and a blank line behind: two terminators
\* consumed, one event.
C10_Witness ==
    /\ capFlushes = 0
    /\ capCalls = 2
    /\ capLines = 2
    /\ Len(capEvents) = 1

\* The unterminated remainder of a text: what follows its last terminator.
RECURSIVE Remainder(_)
Remainder(s) ==
    IF s = <<>> THEN <<>>
    ELSE IF s[Len(s)] = NL THEN <<>>
    ELSE Append(Remainder(SubSeq(s, 1, Len(s) - 1)), s[Len(s)])

\* A text that holds a character other than white space.
HasVisible(s) == \E i \in 1..Len(s) : ~IsSpace(s[i])

\* C11: after any sequence of write() calls, one flush() puts exactly one
\* more log_html event when the unterminated remainder of the text written
\* is not blank, and none when it is empty or white space only; the events
\* put before stay as they were.
C11_FlushEmitsAtMostOne ==
    capFlushes = 1 =>
        /\ IsPrefix(capBefore.events, capEvents)
        /\ Len(capEvents) - Len(capBefore.events)
              = (IF HasVisible(Remainder(capText)) THEN 1 ELSE 0)
        /\ \A i \in 1..Len(capEvents) : capEvents[i].type = "log_html"

\* One flush() after two writes has put one more event, for a remainder that
\* starts with white space.
C11_Witness ==
    /\ capFlushes = 1
    /\ capCalls = 2
    /\ Len(capEvents) = Len(capBefore.events) + 1
    /\ Len(capBefore.events) = 1
    /\ capBefore.buffer = <<SP, "a">>

\* C12: flush() called again with no write() in between puts no event and
\* leaves the wrapper (its buffer, the events it has put) as the flush()
\* before it left it.
C12_FlushIdempotent ==
    capFlushes >= 2 =>
        /\ capBuffer = capBefore.buffer
        /\ capEvents = capBefore.events

\* Two flushes in a row, the first of which put an event for the remainder.
C12_Witness ==
    /\ capFlushes = 2
    /\ Len(capEvents) = NonBlankLines(capText, FALSE) + 1
    /\ HasVisible(Remainder(capText))

(* ask_question, login, logout: the session and the synchronous checks *)

MaxRequests == 3

\* request.json: JSON null, or a JSON object whose "question" key is absent
\* (data.get returns None), the empty string or a text.
NoQuestion == "None"
Questions == {NoQuestion, "", "q"}
NullBody == [json |-> "null", question |-> NoQuestion]
ObjectBody(q) == [json |-> "object", question |-> q]
Bodies == {NullBody} \cup {ObjectBody(q) : q \in Questions}

\* "neo4j_config" not in session or not session.get("neo4j_connected")
NotConnected(s) == ~s.neo4j_config \/ s.neo4j_connected # "True"

\* not question_text
Falsy(q) == q \in {NoQuestion, ""}

\* The status of the response of ask_question; data.get on None raises
\* AttributeError, which Flask answers with 500.
AskStatus(s, body) ==
    IF NotConnected(s) THEN 403
    ELSE IF body.json # "object" THEN 500
    ELSE IF Falsy(body.question) THEN 400
    ELSE 200

\* Mutant of Login: a failed connection test leaves neo4j_config in the
\* session (no session.pop at line 125).
LoginKeepsConfig(ok) ==
    /\ session' = IF ok
                  THEN [neo4j_config |-> TRUE, neo4j_connected |-> "True"]
                  ELSE [neo4j_config |-> TRUE, neo4j_connected |-> "False"]
    /\ loggedIn' = ok
    /\ UNCHANGED replies
    /\ UNCHANGED <<jobVars, capVars, asr>>

\* POST /login: the connection test succeeds (ok) or raises
Login(ok) ==
    /\ session' = IF ok
                  THEN [neo4j_config |-> TRUE, neo4j_connected |-> "True"]
                  ELSE [neo4j_config |-> FALSE, neo4j_connected |-> "False"]
    /\ loggedIn' = ok
    /\ UNCHANGED replies
    /\ UNCHANGED <<jobVars, capVars, asr>>

\* GET /logout
Logout ==
    /\ session' = [neo4j_config |-> FALSE, neo4j_connected |-> "False"]
    /\ loggedIn' = FALSE
    /\ UNCHANGED replies
    /\ UNCHANGED <<jobVars, capVars, asr>>

\* POST /ask with the body given: a rejection, or the streaming response,
\* whose generator creates the queue and the signal and starts the worker.
Ask(body) ==
    /\ Len(replies) < MaxRequests
    /\ LET status == AskStatus(session, body)
           reply(j) == [connected |-> session.neo4j_connected = "True",
                        body |-> body, status |-> status, job |-> j,
                        loggedIn |-> loggedIn]
       IN  IF status = 200
           THEN \E j \in Jobs :
                    /\ StartJob(j)
                    /\ replies' = Append(replies, reply(j))
           ELSE /\ replies' = Append(replies, reply(0))
                /\ UNCHANGED jobVars
    /\ UNCHANGED <<session, loggedIn, capVars, asr>>

\* GET /login: the login page; the session is not written
LoginPage == UNCHANGED vars

\* GET /: a redirect to the login page or the index page; the session is
\* only read
Index == UNCHANGED vars

AskNext ==
    \/ \E ok \in BOOLEAN : Login(ok)
    \/ LoginPage
    \/ Logout
    \/ Index
    \/ \E body \in Bodies : Ask(body)

SpecAsk == Init /\ [][AskNext]_vars

\* A request that carries no question: no JSON object, no "question" key, or
\* an empty one.
QuestionMissing(body) == body.json # "object" \/ body.question \in {NoQuestion, ""}

\* The jobs whose queue, signal and worker thread exist.
StartedJobs == {j \in Jobs : pc[j] # "idle" \/ dpc[j] # "idle"}

\* C13: a request to /ask that is unauthenticated, or whose question is
\* missing or empty, is answered at once with 403, respectively 400, the
\* authentication check first; no queue, no worker thread and no stream is
\* created for it.
C13_RejectedWith403Or400 ==
    /\ \A i \in 1..Len(replies) :
          LET r == replies[i] IN
          (~r.connected \/ QuestionMissing(r.body)) =>
              /\ r.job = 0
              /\ r.status = (IF ~r.connected THEN 403 ELSE 400)
    /\ StartedJobs = {replies[i].job : i \in 1..Len(replies)} \ {0}

\* The part of C13 that does not depend on the status code: a request that is
\* not accepted creates nothing, and a caller who is not connected gets 403
\* whatever the body.
C13_NothingStartedOnRejection ==
    /\ \A i \in 1..Len(replies) :
          LET r == replies[i] IN
          /\ (~r.connected \/ QuestionMissing(r.body)) => r.job = 0
          /\ ~r.connected => r.status = 403
          /\ (r.connected /\ r.body.json = "object" /\ QuestionMissing(r.body))
                => r.status = 400
    /\ StartedJobs = {replies[i].job : i \in 1..Len(replies)} \ {0}

\* The steps of rag_worker between the redirect and the finally block.
EngineSteps == {"engine", "flush", "put_answer", "exc_flush", "put_error"}

\* The events on the queue of job j, whoever put them.
EventsOf(j) == [i \in 1..Len(pushed[j]) |-> pushed[j][i].ev]

\* C14: when q_a has no console, a worker never reaches the engine and never
\* touches q_a.console.file; it puts no answer, and once it has returned its
\* queue has received exactly one error event followed by exactly one
\* finished event, and its signal is set.
C14_NoConsolePath ==
    \A j \in Jobs :
        ~hasConsole =>
            /\ pc[j] \notin EngineSteps
            /\ outcome[j] \in {"none", "noconsole"}
            /\ sinks[j] = {}
            /\ consoleFile = AbsentAttr
            /\ \A i \in 1..Len(pushed[j]) : pushed[j][i].ev.type # "answer"
            /\ pc[j] = "done" =>
                  /\ EventsOf(j) = OwnPuts(j)
                  /\ Len(EventsOf(j)) = 2
                  /\ EventsOf(j)[1].type = "error"
                  /\ EventsOf(j)[2].type = "finished"
                  /\ signal[j]

\* Two workers have both returned through the no-console branch.
C14_Witness ==
    /\ ~hasConsole
    /\ \A j \in Jobs : pc[j] = "done" /\ outcome[j] = "noconsole"

\* A step of the worker thread of job j.
WorkerStep(j) ==
    \/ SaveOriginal(j) \/ Patch(j) \/ NoConsoleError(j) \/ EarlySet(j)
    \/ EngineWrite(j) \/ EngineReturn(j) \/ EngineRaise(j)
    \/ Flush(j) \/ PutAnswer(j) \/ ExcFlush(j) \/ PutError(j)
    \/ Restore(j) \/ SetSignal(j) \/ PutFinished(j)

\* After a failed write to the client of job j: the loop has ended, has
\* written no frame and taken no event since; the worker is never blocked,
\* and once it has returned it has set the signal and put finished.
AfterTransportFailure(j) ==
    /\ dpc[j] = "closed"
    /\ Len(sent[j]) = atClose[j].frames
    /\ Len(queue[j]) >= atClose[j].pending
    /\ pc[j] # "done" => ENABLED WorkerStep(j)
    /\ pc[j] = "done" => signal[j] /\ Finished(j) # {}

\* C15: when a write to the client fails the loop writes nothing more and
\* ends, and the worker is not cancelled: it is never blocked by the queue
\* nobody drains, it sets the signal, puts finished, and has restored
\* q_a.console.file to what it was before its redirect when it returns.
C15_WorkerSurvivesTransportFailure ==
    \A j \in Jobs :
        exitBy[j] = "transport" =>
            /\ AfterTransportFailure(j)
            /\ (pc[j] = "done" /\ outcome[j] # "noconsole")
                  => atExit[j] = atPatch[j]

\* The part of C15 that does not depend on the restore of line 242.
C15_WorkerNotCancelled ==
    \A j \in Jobs : exitBy[j] = "transport" => AfterTransportFailure(j)

\* A loop ended by a failed write while its worker was still in the engine,
\* and the worker has since returned.
C15_Reached ==
    \E j \in Jobs :
        /\ exitBy[j] = "transport"
        /\ pc[j] = "done"
        /\ Len(pushed[j]) > atClose[j].frames + 2

-----------------------------------------------------------------------------
(* The conversion raising: SseLogStreamWrapper and rag_worker when         *)
(* ansi_conv.convert raises on a fragment                                  *)

MaxFormatWrites == 2

\* A character on which ansi_conv.convert raises.
Bad == "!"
ConvertRaises(text) == \E i \in 1..Len(text) : text[i] = Bad

\* The while loop of write() when convert may raise: the line has left the
\* buffer (line 173) when line 177 raises, and the loop is abandoned.
RECURSIVE WriteLoopRaising(_, _)
WriteLoopRaising(buf, events) ==
    LET i == NewlineIndex(buf) IN
    IF i = 0 THEN [buffer |-> buf, events |-> events, raised |-> FALSE]
    ELSE LET line == SubSeq(buf, 1, i)
             rest == SubSeq(buf, i + 1, Len(buf))
         IN IF EmitsLine(line) /\ ConvertRaises(Strip(line))
            THEN [buffer |-> rest, events |-> events, raised |-> TRUE]
            ELSE WriteLoopRaising(rest,
                                  IF EmitsLine(line)
                                  THEN Append(events, LogEvent(Strip(line)))
                                  ELSE events)

\* flush() raises at line 186: nothing is put, the buffer is not cleared.
FlushRaises(buf) == Strip(buf) # <<>> /\ ConvertRaises(Strip(buf))

FormatChunks(j) == Chunks(j) \cup {<<Bad>>, <<Bad, NL>>}

FormatInit ==
    /\ hasConsole = TRUE
    /\ consoleFile = StdoutSink
    /\ budget = MaxFormatWrites
    /\ JobsIdle
    /\ CapInit
    /\ AskInit
    /\ AsrInit

\* The engine prints a chunk.  When write() raises, the exception reaches
\* the engine's print call: the engine lets it out of answer_question
\* (line 233 catches it) or handles it and goes on.
FormatWrite(j) ==
    /\ pc[j] = "engine"
    /\ budget > 0
    /\ \E s \in FormatChunks(j) :
         /\ budget' = budget - 1
         /\ sinks' = [sinks EXCEPT ![j] = @ \cup {consoleFile}]
         /\ IF consoleFile.kind = "wrapper"
            THEN LET k == consoleFile.job
                     r == WriteLoopRaising(buffer[k] \o s, <<>>)
                 IN /\ buffer' = [buffer EXCEPT ![k] = r.buffer]
                    /\ Put(k, r.events, j)
                    /\ IF r.raised
                       THEN \/ UNCHANGED <<pc, outcome>>
                            \/ /\ pc' = [pc EXCEPT ![j] = "exc_flush"]
                               /\ outcome' = [outcome EXCEPT
                                                ![j] = "format_error"]
                       ELSE UNCHANGED <<pc, outcome>>
            ELSE UNCHANGED <<buffer, queue, pushed, pc, outcome>>
    /\ UNCHANGED atClose
    /\ UNCHANGED <<hasConsole, consoleFile, original, signal, dpc, sent,
                   exitBy, atPatch, atExit>>
    /\ UNCHANGED otherVars

\* worker_sse_wrapper.flush() at line 229; when it raises, line 233 catches
FormatFlush(j) ==
    /\ pc[j] = "flush"
    /\ IF FlushRaises(buffer[j])
       THEN /\ pc' = [pc EXCEPT ![j] = "exc_flush"]
            /\ outcome' = [outcome EXCEPT ![j] = "format_error"]
            /\ UNCHANGED atClose
            /\ UNCHANGED <<hasConsole, consoleFile, original, buffer, queue,
                           signal, budget, dpc, sent, exitBy, pushed, sinks,
                           atPatch, atExit>>
            /\ UNCHANGED otherVars
       ELSE FlushOwn(j, "put_answer")

\* try: worker_sse_wrapper.flush() except: pass  (lines 236-237)
FormatExcFlush(j) ==
    /\ pc[j] = "exc_flush"
    /\ IF FlushRaises(buffer[j])
       THEN /\ pc' = [pc EXCEPT ![j] = "put_error"]
            /\ UNCHANGED atClose
            /\ UNCHANGED <<hasConsole, consoleFile, original, buffer, queue,
                           signal, outcome, budget, dpc, sent, exitBy, pushed,
                           sinks, atPatch, atExit>>
            /\ UNCHANGED otherVars
       ELSE FlushOwn(j, "put_error")

\* Workers whose engine call never fails by itself.
FormatNext ==
    \E j \in Jobs :
        \/ Start(j)
        \/ SaveOriginal(j)
        \/ Patch(j)
        \/ FormatWrite(j)
        \/ EngineReturn(j)
        \/ FormatFlush(j)
        \/ PutAnswer(j)
        \/ FormatExcFlush(j)
        \/ PutError(j)
        \/ Restore(j)
        \/ SetSignal(j)
        \/ PutFinished(j)

SpecFormat == FormatInit /\ [][FormatNext]_vars

\* C16: a conversion that raises in write() or flush() does not abort the
\* job: a worker whose engine call does not fail by itself has, when it
\* returns, put its answer and no error.
C16_FormatFailureKeepsAnswer ==
    \A j \in Jobs :
        pc[j] = "done" =>
            /\ \E i \in 1..Len(OwnPuts(j)) : OwnPuts(j)[i].type = "answer"
            /\ \A i \in 1..Len(OwnPuts(j)) : OwnPuts(j)[i].type # "error"

\* The engine of job 1 returned, flush() at line 229 raised, and the worker
\* has returned.
C16_FlushRaised ==
    /\ pc[1] = "done"
    /\ outcome[1] = "format_error"
    /\ FlushRaises(buffer[1])

\* The sink in place before the first job: the worker that redirects first
\* reads it at line 210, and any value read there later that is not a
\* wrapper is that same sink written back by a restore.
SinksBeforeJobs ==
    {atPatch[j] : j \in {i \in Jobs : atPatch[i].kind # "wrapper"}}

\* C17: for workers that overlap in any way, once every worker has returned
\* q_a.console.file is the sink that was in place before the first job, and
\* not the wrapper of a finished job.
C17_BindingBackAfterAllJobs ==
    (hasConsole /\ \A j \in Jobs : pc[j] = "done") =>
        /\ consoleFile.kind # "wrapper"
        /\ \A s \in SinksBeforeJobs : consoleFile = s

\* Both workers have returned, the sink before the jobs was stdout, and the
\* binding is left on the wrapper of job 1.
C17_LeftOnWrapper ==
    /\ \A j \in Jobs : pc[j] = "done"
    /\ SinksBeforeJobs = {StdoutSink}
    /\ consoleFile = Wrapper(1)

-----------------------------------------------------------------------------
(* Fair scheduling *)

MaxFairWrites == 1

\* q_a.console.file is stdout before the jobs.
FairInit ==
    /\ hasConsole = TRUE
    /\ consoleFile = StdoutSink
    /\ budget = MaxFairWrites
    /\ JobsIdle
    /\ CapInit
    /\ AskInit
    /\ AsrInit

\* The workers and the loops of the jobs when q_a.console exists and the
\* clients stay connected (a failed write ends its loop at once).
FairNext ==
    \E j \in Jobs :
        \/ Start(j)
        \/ SaveOriginal(j)
        \/ Patch(j)
        \/ EngineWrite(j)
        \/ EngineReturn(j)
        \/ EngineRaise(j)
        \/ Flush(j)
        \/ PutAnswer(j)
        \/ ExcFlush(j)
        \/ PutError(j)
        \/ Restore(j)
        \/ SetSignal(j)
        \/ PutFinished(j)
        \/ LoopExit(j)
        \/ Forward(j)
        \/ PollTimeout(j)

\* A step of the worker thread of job j outside the engine call: the thread
\* is scheduled again and again, and none of these statements blocks.
WorkerOwnStep(j) ==
    \/ SaveOriginal(j) \/ Patch(j)
    \/ Flush(j) \/ PutAnswer(j) \/ ExcFlush(j) \/ PutError(j)
    \/ Restore(j) \/ SetSignal(j) \/ PutFinished(j)

\* An iteration of the generator loop of job j that does not time out.
LoopStep(j) == LoopExit(j) \/ Forward(j)

\* The workers and the loops keep running; the engine call itself may go on
\* for ever.
Fairness ==
    \A j \in Jobs : WF_vars(WorkerOwnStep(j)) /\ WF_vars(LoopStep(j))

SpecFair == FairInit /\ [][FairNext]_vars /\ Fairness

\* C18: under fair scheduling of the worker and of the generator loop, for
\* every job whose engine call has returned or raised the loop eventually
\* ends.
C18_LoopTerminates ==
    \A j \in Jobs : (outcome[j] # "none") ~> (dpc[j] = "closed")

\* The loop of a job whose engine raised has ended by its while condition,
\* having forwarded the error and not the finished event.
C18_Witness ==
    \E j \in Jobs :
        /\ outcome[j] = "raised"
        /\ dpc[j] = "closed"
        /\ exitBy[j] = "condition"
        /\ Len(sent[j]) > 0

-----------------------------------------------------------------------------
(* Claims about how the generator loop ends, checked under Spec *)

\* C19: a loop that ended without a transport failure ended either having
\* just forwarded a finished event, or with the signal set and the queue
\* empty; the signal was set when it ended; and events were left in the
\* queue only if the event just forwarded was finished.
C19_ClosesOnlyWhenDone ==
    \A j \in Jobs :
        (dpc[j] = "closed" /\ exitBy[j] # "transport") =>
            LET c == atClose[j] IN
            /\ c.last = "finished" \/ (c.signal /\ c.pending = 0)
            /\ c.signal
            /\ c.pending > 0 => c.last = "finished"
            /\ c.last = "finished" =>
                  sent[j][c.frames] = SseFrame(FinishedEvent)

\* The loop of job 1 ended by forwarding finished while an event, written by
\* the engine of job 2 through the wrapper of job 1, was still in the queue.
C19_Witness ==
    /\ dpc[1] = "closed"
    /\ exitBy[1] = "finished"
    /\ atClose[1].pending > 0
    /\ atClose[1].signal

\* The positions of the finished frames among the frames written for job j.
FinishedFrames(j) ==
    {i \in 1..Len(sent[j]) : sent[j][i] = SseFrame(FinishedEvent)}

\* C20: at most one finished frame is written per stream and no frame is
\* written after it, whatever is or later comes to be in the queue.
C20_NothingAfterFinished ==
    \A j \in Jobs :
        /\ Cardinality(FinishedFrames(j)) <= 1
        /\ \A i \in FinishedFrames(j) : i = Len(sent[j])
        /\ FinishedFrames(j) # {} => dpc[j] = "closed"

\* The finished frame of job 1 has been written, and a log event written
\* later by the engine of job 2 through the wrapper of job 1 sits in the
\* queue of job 1, unwritten.
C20_Witness ==
    /\ FinishedFrames(1) # {}
    /\ Len(queue[1]) > atClose[1].pending
    /\ queue[1][Len(queue[1])].type = "log_html"

-----------------------------------------------------------------------------
(* More claims about SseLogStreamWrapper, checked under SpecCapture *)

\* C21: after flush() has returned the wrapper's buffer is empty, whatever
\* the write() calls before it left there: a non-blank remainder, nothing,
\* or white space only.
C21_BufferEmptyAfterFlush ==
    capFlushes >= 1 => capBuffer = <<>>

\* flush() has returned and the buffer still holds the white space that was
\* written with no newline after it.
C21_Reached ==
    /\ capFlushes >= 1
    /\ capBuffer = <<SP>>

-----------------------------------------------------------------------------
(* More claims about rag_worker, checked under SpecWorkers *)

\* The job is announced as complete: its signal is set or its worker has put
\* finished.
Announced(j) == signal[j] \/ Finished(j) # {}

\* The positions of rag_worker after lines 241-242.
AfterRestore == {"set", "put_finished", "done"}

\* C22: whenever a worker that redirected q_a.console.file has set its
\* signal or put its finished event, it has executed its restore step
\* before, and its own wrapper is not the binding.
C22_RestoredBeforeAnnounced ==
    \A j \in Jobs :
        (hasConsole /\ Announced(j)) =>
            /\ pc[j] \in AfterRestore
            /\ consoleFile # Wrapper(j)

\* The part of C22 that is about the order of the statements alone.
C22_RestoreStepFirst ==
    \A j \in Jobs : (hasConsole /\ Announced(j)) => pc[j] \in AfterRestore

\* Job 1 is announced as complete while its own wrapper is the binding,
\* although the sink before the jobs was stdout.
C22_Reached ==
    /\ Announced(1)
    /\ consoleFile = Wrapper(1)
    /\ SinksBeforeJobs = {StdoutSink}

\* The lines of a text, in order: the pieces between line terminators, the
\* unterminated end included; cur is the piece being read.
RECURSIVE SplitLines(_, _)
SplitLines(s, cur) ==
    IF s = <<>> THEN <<cur>>
    ELSE IF Head(s) = NL THEN <<cur>> \o SplitLines(Tail(s), <<>>)
    ELSE SplitLines(Tail(s), Append(cur, Head(s)))

\* The events of the stripped lines that are not blank, in order.
RECURSIVE EventsOfLines(_)
EventsOfLines(lines) ==
    IF lines = <<>> THEN <<>>
    ELSE (IF HasVisible(Head(lines))
          THEN <<LogEvent(Strip(Head(lines)))>> ELSE <<>>)
         \o EventsOfLines(Tail(lines))

\* C23: the events put by the write() calls and one flush() are the events
\* of the stripped non-blank lines of the text written, in order, however
\* the text was cut into chunks.
C23_ChunkingInsensitive ==
    capFlushes = 1 => capEvents = EventsOfLines(SplitLines(capText, <<>>))

\* Two chunks whose boundary falls inside the first line, then flush(): two
\* events, the first for the line that came in two pieces.
C23_Witness ==
    /\ capFlushes = 1
    /\ capCalls = 2
    /\ capText = <<"a", "<", NL, "a">>
    /\ Len(capEvents) = 2

-----------------------------------------------------------------------------
(* The session, checked under SpecAsk *)

\* C24: at the end of every request neo4j_config is in the session exactly
\* when neo4j_connected is true, which is exactly when the last login or
\* logout was a login that succeeded; and /ask has started a worker only for
\* a session in that state.
C24_ConfigIffConnected ==
    /\ session.neo4j_config <=> (session.neo4j_connected = "True")
    /\ (session.neo4j_connected = "True") <=> loggedIn
    /\ \A i \in 1..Len(replies) : replies[i].job # 0 => replies[i].loggedIn

\* A worker was started after a login, and after a logout and a failed login
\* the next /ask with a question was rejected.
C24_Witness ==
    /\ Len(replies) = 2
    /\ replies[1].job = 1
    /\ replies[2].status = 403
    /\ replies[2].body = ObjectBody("q")
    /\ ~session.neo4j_config

-----------------------------------------------------------------------------
(* voice_asr.py: VoiceASR.recognize_audio_file, one call *)

\* Samples of the converted audio, and messages the server sends that do not
\* end the receive loop.
MaxSamples == 1300
MaxRecvs == 2

\* sample_frames = 1280, and the literal of `if len(pack_data_2) < 1280`
sample_frames == 1280
MinChunkBytes == 1280
\* nframes = nlen * 2: an int16 sample is two bytes
BytesPerSample == 2

\* What is sent on the websocket.
StartedMsg == [kind |-> "started", offset |-> 0, len |-> 0]
ChunkMsg(offset, n) == [kind |-> "binary", offset |-> offset, len |-> n]
EndMsg == [kind |-> "--end--", offset |-> 0, len |-> 0]
CloseMsg == [kind |-> "--close--", offset |-> 0, len |-> 0]

\* What ws.recv() gives: a JSON message, or text that is not the JSON
\* expected (json.loads or a key lookup raises).
Texts == {"", "ni hao"}
Responses ==
    [action : {"error", "result", "started"}, type : {"asr", "other"},
     is_last : BOOLEAN, text : Texts, wellformed : BOOLEAN]

\* An operation raises: the history records it and, for a send, how much
\* had been sent.
Failing(a, op) ==
    [a EXCEPT !.failed = @ \cup {op},
              !.sent_at_failure = IF op \in {"send", "send_close"}
                                  THEN Len(a.sent) ELSE @]

\* except Exception in _process_audio_data: return result_text (line 184)
ProcessRaises(a, op) == [Failing(a, op) EXCEPT !.pc = "close"]

\* except Exception in recognize_audio_file: return "" (lines 48-50)
RecognizeRaises(a, op) ==
    [Failing(a, op) EXCEPT !.pc = "returned", !.returned = ""]

\* wav_data = self._load_and_convert_audio(path): an array of nlen samples,
\* or None when reading or converting raised
AsrLoad ==
    /\ asr.pc = "load"
    /\ \/ \E nlen \in 0..MaxSamples :
            asr' = [asr EXCEPT !.pc = "connect",
                               !.nframes = nlen * BytesPerSample]
       \/ asr' = [Failing(asr, "load") EXCEPT !.pc = "returned",
                                              !.returned = ""]
    /\ UNCHANGED <<jobVars, capVars, askVars>>

\* ws = self._create_websocket_connection()
AsrConnect ==
    /\ asr.pc = "connect"
    /\ \/ asr' = [asr EXCEPT !.pc = "send_started", !.ws = "open"]
       \/ asr' = RecognizeRaises(asr, "connect")
    /\ UNCHANGED <<jobVars, capVars, askVars>>

\* ws.send(json.dumps(start_data)); cur_frames = 0
AsrSendStarted ==
    /\ asr.pc = "send_started"
    /\ \/ asr' = [asr EXCEPT !.pc = "chunks", !.cur_frames = 0,
                             !.sent = Append(@, StartedMsg)]
       \/ asr' = ProcessRaises(asr, "send")
    /\ UNCHANGED <<jobVars, capVars, askVars>>

\* Mutant of AsrChunk: the trailing short chunk is sent too (no break).
AsrChunkSendsTail ==
    /\ asr.pc = "chunks"
    /\ IF asr.cur_frames < asr.nframes
       THEN LET samp_remaining == asr.nframes - asr.cur_frames
                num_samp == IF sample_frames < samp_remaining
                            THEN sample_frames ELSE samp_remaining
                a == [asr EXCEPT !.cur_frames = @ + num_samp,
                                 !.iterations = @ + 1]
            IN \/ asr' = [a EXCEPT !.sent =
                            Append(@, ChunkMsg(asr.cur_frames, num_samp))]
               \/ asr' = ProcessRaises(a, "send")
       ELSE asr' = [asr EXCEPT !.pc = "send_end"]
    /\ UNCHANGED <<jobVars, capVars, askVars>>

\* One test of `while cur_frames < nframes` and, when it holds, one
\* iteration: the chunk is cut, cur_frames advanced, a short chunk breaks
\* the loop unsent, a full one is sent.
AsrChunk ==
    /\ asr.pc = "chunks"
    /\ IF asr.cur_frames < asr.nframes
       THEN LET samp_remaining == asr.nframes - asr.cur_frames
                num_samp == IF sample_frames < samp_remaining
                            THEN sample_frames ELSE samp_remaining
                a == [asr EXCEPT !.cur_frames = @ + num_samp,
                                 !.iterations = @ + 1]
            IN IF num_samp < MinChunkBytes
               THEN asr' = [a EXCEPT !.pc = "send_end"]
               ELSE \/ asr' = [a EXCEPT !.sent =
                                 Append(@, ChunkMsg(asr.cur_frames, num_samp))]
                    \/ asr' = ProcessRaises(a, "send")
       ELSE asr' = [asr EXCEPT !.pc = "send_end"]
    /\ UNCHANGED <<jobVars, capVars, askVars>>

\* ws.send_binary(b'--end--')
AsrSendEnd ==
    /\ asr.pc = "send_end"
    /\ \/ asr' = [asr EXCEPT !.pc = "recv", !.sent = Append(@, EndMsg)]
       \/ asr' = ProcessRaises(asr, "send")
    /\ UNCHANGED <<jobVars, capVars, askVars>>

\* One iteration of the loop of _receive_results whose ws.recv() returns m.
AsrRecv(m) ==
    /\ asr.pc = "recv"
    /\ IF ~m.wellformed
       THEN asr' = [Failing(asr, "recv") EXCEPT !.pc = "send_close"]
       ELSE IF m.action = "error"
       THEN asr' = [asr EXCEPT !.pc = "send_close"]
       ELSE IF m.action = "result" /\ m.type = "asr" /\ m.is_last
       THEN asr' = [asr EXCEPT !.pc = "send_close", !.result_text = m.text,
                               !.got_last = TRUE]
       ELSE /\ asr.recvs < MaxRecvs
            /\ asr' = [asr EXCEPT !.recvs = @ + 1]
    /\ UNCHANGED <<jobVars, capVars, askVars>>

\* ws.recv() raises: except Exception: break
AsrRecvRaises ==
    /\ asr.pc = "recv"
    /\ asr' = [Failing(asr, "recv") EXCEPT !.pc = "send_close"]
    /\ UNCHANGED <<jobVars, capVars, askVars>>

\* ws.send_binary(b'--close--'); return result_text
AsrSendClose ==
    /\ asr.pc = "send_close"
    /\ \/ asr' = [asr EXCEPT !.pc = "close", !.sent = Append(@, CloseMsg)]
       \/ asr' = ProcessRaises(asr, "send_close")
    /\ UNCHANGED <<jobVars, capVars, askVars>>

\* Mutant of AsrClose: a close() that raises does not discard the result.
AsrCloseKeepsResult ==
    /\ asr.pc = "close"
    /\ \/ asr' = [asr EXCEPT !.pc = "returned", !.ws = "closed",
                             !.returned = asr.result_text]
       \/ asr' = [Failing(asr, "close") EXCEPT !.pc = "returned",
                     !.ws = "closed", !.returned = asr.result_text]
    /\ UNCHANGED <<jobVars, capVars, askVars>>

\* ws.close(); return result_text
AsrClose ==
    /\ asr.pc = "close"
    /\ \/ asr' = [asr EXCEPT !.pc = "returned", !.ws = "closed",
                             !.returned = asr.result_text]
       \/ asr' = [RecognizeRaises(asr, "close") EXCEPT !.ws = "closed"]
    /\ UNCHANGED <<jobVars, capVars, askVars>>

AsrNext ==
    \/ AsrLoad
    \/ AsrConnect
    \/ AsrSendStarted
    \/ AsrChunk
    \/ AsrSendEnd
    \/ \E m \in Responses : AsrRecv(m)
    \/ AsrRecvRaises
    \/ AsrSendClose
    \/ AsrClose

SpecAsr == CapStart /\ [][AsrNext]_vars

-----------------------------------------------------------------------------
(* Claims about recognize_audio_file, checked under SpecAsr *)

\* The websocket was opened and close() has been called on it, or it was
\* never opened.
ClosedIfOpened == asr.ws \in {"none", "closed"}

\* C25 as stated: the call returns a string; it is empty when loading,
\* connecting, sending, receiving or closing failed; it is not empty only
\* when a result with is_last true was received; and close() was called on
\* the websocket if it was opened.
C25_AnyFailureGivesEmpty ==
    asr.pc = "returned" =>
        /\ asr.returned \in Texts
        /\ asr.failed # {} => asr.returned = ""
        /\ asr.returned # "" => asr.got_last
        /\ ClosedIfOpened

\* C25 amended: as above, except that a failure to send `--close--`, which
\* comes after the result was received, does not discard the result: when
\* nothing else failed the call returns the text received.
C25_FailureGivesEmptyButCloseSignal ==
    asr.pc = "returned" =>
        /\ asr.returned \in Texts
        /\ asr.failed \ {"send_close"} # {} => asr.returned = ""
        /\ asr.failed \subseteq {"send_close"} =>
              asr.returned = asr.result_text
        /\ asr.returned # "" => asr.got_last
        /\ ClosedIfOpened

\* The result was received, sending `--close--` failed, close() was called
\* and the text was returned.
C25_Witness ==
    /\ asr.pc = "returned"
    /\ asr.failed = {"send_close"}
    /\ asr.ws = "closed"
    /\ asr.returned = "ni hao"

\* The messages of a call that runs to its end for audio of n bytes: started,
\* the full chunks of 1280 bytes in ascending order, --end--, --close--.
ExpectedSent(n) ==
    <<StartedMsg>>
    \o [i \in 1..(n \div 1280) |-> ChunkMsg((i - 1) * 1280, 1280)]
    \o <<EndMsg, CloseMsg>>

\* The messages sent hold m.
HasSent(m) == \E i \in 1..Len(asr.sent) : asr.sent[i] = m

\* C26: what _process_audio_data has sent is always a prefix of: started, the
\* chunks of exactly 1280 bytes in ascending offset order (the short tail is
\* never sent), --end--, --close--; --end-- is sent after the chunk loop and
\* --close-- after the receive loop; the chunk loop makes at most
\* nframes / 1280 + 1 iterations; and once a send has failed nothing more is
\* sent.
C26_SendOrder ==
    /\ IsPrefix(asr.sent, ExpectedSent(asr.nframes))
    /\ HasSent(EndMsg) => asr.pc \in {"recv", "send_close", "close", "returned"}
    /\ HasSent(CloseMsg) => asr.pc \in {"close", "returned"}
    /\ asr.iterations <= (asr.nframes \div 1280) + 1
    /\ asr.pc = "chunks" => asr.cur_frames = asr.iterations * 1280
    /\ asr.cur_frames <= asr.nframes
    /\ (asr.failed \cap {"send", "send_close"} # {}) =>
          Len(asr.sent) = asr.sent_at_failure

\* A call for 2600 bytes of audio has returned with nothing failing: started,
\* two chunks, --end-- and --close-- were sent, the last 40 bytes were not.
C26_Witness ==
    /\ asr.pc = "returned"
    /\ asr.nframes = 2600
    /\ asr.failed = {}
    /\ asr.sent = ExpectedSent(2600)
    /\ asr.iterations = 3

====
